---- MODULE Spec2Model ----
(***************************************************************************)
(* Model of amplifier_module_tool_beads/hooks.py.                          *)
(*                                                                         *)
(* BeadsWorkflowReminderHook: the session-scoped workflow reminder         *)
(* scheduler.  One hook instance is constructed from a configuration and   *)
(* is then driven by two event handlers, on_tool_post (tool:post) and      *)
(* on_provider_request (provider:request).  The external bd process is the *)
(* environment: what it does on a request is an input of the handler.      *)
(***************************************************************************)
EXTENDS Integers, Sequences, FiniteSets, TLC

\* ------------------------------------------------------------------ bounds
\* Tool-completed events delivered in one session.
MaxCalls == 3
\* Length of the list the issue tracker prints.
MaxIssues == 4
\* Largest recent_tool_threshold / reminder_interval a configuration holds.
MaxThreshold == 2
MaxInterval == 2

\* ------------------------------------------------------- program constants
\* in_progress_issues[:3] and len(in_progress_issues) > 3 in _build_reminder.
DisplayCap == 3

TrackedTool == "beads"

\* ------------------------------------------------------------------ inputs
\* config.get("recent_tool_threshold", 5), config.get("reminder_interval", 8):
\* any integer the caller puts in the dict, negative ones included.
ThresholdValues == -1..MaxThreshold
IntervalValues == -1..MaxInterval

\* The data dict of a tool:post event: the "tool" key may be absent, and its
\* value may be the empty string.
ToolPayloads ==
    [has_tool : {TRUE}, tool : {"beads", "other", ""}]
        \cup {[has_tool |-> FALSE, tool |-> ""]}

\* One element of the JSON list bd prints: an object with an id and a title
\* (an issue), or a value that is not an object.
Issue(i) == [is_object |-> TRUE, id |-> i]
NonObject == [is_object |-> FALSE, id |-> 0]

\* The lists bd may print: issues 1..n in query order, all of them objects,
\* and the shortest and the longest list with a last element that is not an
\* object.
AllIssues(n) == [i \in 1..n |-> Issue(i)]
LastBad(n) == [i \in 1..n |-> IF i = n THEN NonObject ELSE Issue(i)]
IssueLists ==
    {AllIssues(n) : n \in 0..MaxIssues} \cup {LastBad(1), LastBad(MaxIssues)}

\* What bd writes to stdout, as the JSON document it denotes.
\*   invalid : text that is not JSON (the empty output included)
\*   null, number : valid JSON that is neither a list nor an object
\*   list : a JSON list
\*   object : a JSON object; has_issues tells whether it has an "issues" key
Doc(k, h, l) == [kind |-> k, has_issues |-> h, items |-> l]
Documents ==
    {Doc("invalid", FALSE, <<>>), Doc("null", FALSE, <<>>),
     Doc("number", FALSE, <<>>), Doc("object", FALSE, <<>>)}
        \cup {Doc("list", FALSE, l) : l \in IssueLists}
        \cup {Doc("object", TRUE, l) : l \in {x \in IssueLists : Len(x) <= 1}}

NoOutput == Doc("invalid", FALSE, <<>>)

\* One run of the bd process: whether the binary is on the PATH, how
\* subprocess.run ended, and what the process printed.
BdOutcomes ==
    {[available |-> FALSE, exit |-> "none", stdout |-> NoOutput]}
        \cup [available : {TRUE}, exit : {"nonzero", "timeout", "oserror"},
              stdout : {NoOutput}]
        \cup [available : {TRUE}, exit : {"zero"}, stdout : Documents]

NotRun == [available |-> FALSE, exit |-> "none", stdout |-> NoOutput]

\* --------------------------------------------------------------- HookResult
\* HookResult(action=...): the listed issue ids and the count of the summary
\* line stand for the context_injection text.  "raise" is an exception that
\* leaves the handler instead of a HookResult.
HookResult(a, l, m) == [action |-> a, listed |-> l, more |-> m]
Continue == HookResult("continue", <<>>, 0)
Raised == HookResult("raise", <<>>, 0)

\* ------------------------------------------------------------------ helpers
\* data.get("tool", "")
data_get_tool(data) == IF data.has_tool THEN data.tool ELSE ""

\* if tool_name is not None: the empty name passes.
truthy_any(tool_name) == TRUE

\* if tool_name:
truthy(tool_name) == tool_name # ""

\* A full window that drops its newest entry instead of its oldest.
deque_append_drop_newest(dq, maxlen, x) ==
    IF maxlen = 0 THEN dq
    ELSE IF Len(dq) >= maxlen THEN Append(SubSeq(dq, 1, Len(dq) - 1), x)
    ELSE Append(dq, x)

\* deque(maxlen=n).append(x): a full deque drops its leftmost entry; a deque
\* of maxlen 0 stays empty.
deque_append(dq, maxlen, x) ==
    IF maxlen = 0 THEN dq
    ELSE IF Len(dq) >= maxlen THEN Append(Tail(dq), x)
    ELSE Append(dq, x)

\* Off by one, early: the gate opens one call before the interval.
TooFrequent_early(calls, interval) == calls + 1 < interval

\* Off by one, late: <= in place of <.
TooFrequent_late(calls, interval) == calls <= interval

\* self._tool_calls_since_reminder < self.reminder_interval
TooFrequent(calls, interval) == calls < interval

\* Only the most recent entry of the window is looked at.
beads_used_recently_last(tools) ==
    Len(tools) > 0 /\ tools[Len(tools)] = TrackedTool

\* Only the oldest entry of the window is looked at.
beads_used_recently_first(tools) ==
    Len(tools) > 0 /\ tools[1] = TrackedTool

\* "beads" in self.recent_tools
beads_used_recently(tools) == \E i \in 1..Len(tools) : tools[i] = TrackedTool

\* The flag follows the last tool seen: another tool clears it.
mark_used_last(used, tool_name) == tool_name = TrackedTool

\* if tool_name == "beads": self._beads_used_this_session = True
mark_used(used, tool_name) == IF tool_name = TrackedTool THEN TRUE ELSE used

\* _bd_available(): shutil.which("bd") is not None
_bd_available(proc) == proc.available

\* _run_bd: (True, stdout) for return code 0; (False, text) for a non-zero
\* return code, a timeout and any other exception of subprocess.run.
_run_bd(proc) ==
    IF proc.exit = "zero"
    THEN [success |-> TRUE, output |-> proc.stdout]
    ELSE [success |-> FALSE, output |-> NoOutput]

\* json.loads: JSONDecodeError for text that is not JSON.
json_loads(doc) == [ok |-> doc.kind # "invalid", value |-> doc]

\* list_data if isinstance(list_data, list) else list_data.get("issues", []):
\* .get exists on a dict only, so null and a number raise AttributeError.
issues_of(value) ==
    IF value.kind = "list" THEN [raised |-> FALSE, issues |-> value.items]
    ELSE IF value.kind = "object"
    THEN [raised |-> FALSE,
          issues |-> IF value.has_issues THEN value.items ELSE <<>>]
    ELSE [raised |-> TRUE, issues |-> <<>>]

\* if issues is None: an empty list passes.
no_issues_is_none(issues) == FALSE

\* not issues
no_issues(issues) == Len(issues) = 0

Min(a, b) == IF a < b THEN a ELSE b

\* No cap: every issue is listed.
shown_all(issues) == issues

\* in_progress_issues[:3]
shown(issues) == SubSeq(issues, 1, Min(Len(issues), DisplayCap))

\* _build_reminder: issue.get on each of the first three elements (an
\* element that is not an object raises AttributeError), then the summary
\* line when more than three were returned.
_build_reminder(issues) ==
    LET head == shown(issues) IN
    IF \E i \in 1..Len(head) : ~head[i].is_object
    THEN [raised |-> TRUE, listed |-> <<>>, more |-> 0]
    ELSE [raised |-> FALSE,
          listed |-> [i \in 1..Len(head) |-> head[i].id],
          more |-> IF Len(issues) > DisplayCap
                   THEN Len(issues) - DisplayCap ELSE 0]

\* The counter is cleared before the query, whatever it answers.
query_and_remind_resets(calls, proc) ==
    [result |-> Continue, calls |-> 0, invoked |-> FALSE, consulted |-> TRUE]

\* The body of on_provider_request after the in-memory gates: the query and
\* what follows.  calls is the counter the handler leaves behind.
query_and_remind(calls, proc) ==
    IF ~_bd_available(proc)
    THEN [result |-> Continue, calls |-> calls, invoked |-> FALSE,
          consulted |-> TRUE]
    ELSE LET r == _run_bd(proc) IN
    IF ~r.success
    THEN [result |-> Continue, calls |-> calls, invoked |-> TRUE,
          consulted |-> TRUE]
    ELSE LET parsed == json_loads(r.output) IN
    IF ~parsed.ok
    THEN [result |-> Continue, calls |-> calls, invoked |-> TRUE,
          consulted |-> TRUE]
    ELSE LET got == issues_of(parsed.value) IN
    IF got.raised
    THEN [result |-> Raised, calls |-> calls, invoked |-> TRUE,
          consulted |-> TRUE]
    ELSE IF no_issues(got.issues)
    THEN [result |-> Continue, calls |-> calls, invoked |-> TRUE,
          consulted |-> TRUE]
    ELSE LET built == _build_reminder(got.issues) IN
    \* self._tool_calls_since_reminder = 0 comes before _build_reminder
    IF built.raised
    THEN [result |-> Raised, calls |-> 0, invoked |-> TRUE,
          consulted |-> TRUE]
    ELSE [result |-> HookResult("inject_context", built.listed, built.more),
          calls |-> 0, invoked |-> TRUE,
          consulted |-> TRUE]

\* on_provider_request as a function of the hook's fields and of bd.
provider_request(en, calls, interval, tools, proc) ==
    IF ~en
    THEN [result |-> Continue, calls |-> calls, invoked |-> FALSE,
          consulted |-> FALSE]
    ELSE IF TooFrequent(calls, interval)
    THEN [result |-> Continue, calls |-> calls, invoked |-> FALSE,
          consulted |-> FALSE]
    ELSE IF beads_used_recently(tools)
    THEN [result |-> Continue, calls |-> calls, invoked |-> FALSE,
          consulted |-> FALSE]
    ELSE query_and_remind(calls, proc)

\* -------------------------------------------------------------------- state
VARIABLES
    phase,                      \* "new", "ready", or "init_error" (__init__ raised)
    enabled,                    \* self.enabled
    recent_tool_threshold,      \* self.recent_tool_threshold
    reminder_interval,          \* self.reminder_interval
    recent_tools,               \* self.recent_tools
    tool_calls_since_reminder,  \* self._tool_calls_since_reminder
    beads_used_this_session,    \* self._beads_used_this_session
    op,                         \* the handler that ran last
    bd,                         \* what bd did when the last handler consulted it
    bd_invoked,                 \* the last handler called _run_bd
    result,                     \* what the last handler returned
    observed,                   \* history: tool name of every tool:post event
    calls_observed,             \* history: tool:post events since the last reminder
    reminders                   \* history: reminders returned so far, counted up to 2

\* _build_reminder taken alone: the hook's configuration dict and the list
\* of in-progress issues it is given.
VARIABLES
    display_pc,                 \* "idle", "input" or "built"
    display_option,             \* config["maxDisplayedItems"], 0 when not given
    display_issues,             \* in_progress_issues
    display_out                 \* what _build_reminder made of them

\* Two BeadsWorkflowReminderHook objects, one mounted for each of two
\* sessions.
VARIABLES
    session_pc,                 \* "idle" or "mounted"
    session_config,             \* the configuration both were built from
    session_fields,             \* the attributes of the hook objects
    session_alone,              \* each hook's attributes had it run alone
    session_last                \* the last event: who got it, what came back

\* One BeadsReadyHook object.
VARIABLES
    ready_pc,                   \* "idle" or "mounted"
    ready_enabled,              \* self.enabled
    ready_max_issues,           \* self.max_issues
    ready_injected,             \* self._injected
    ready_result,               \* what the last on_provider_request returned
    ready_bd,                   \* what bd did in it, NotRun when not consulted
    ready_invoked,              \* whether it started a bd process
    ready_requests,             \* history: provider:request events so far
    ready_injections,           \* history: inject_context results so far
    ready_queried               \* history: some call got its issues from bd

\* One BeadsSessionEndHook object.
VARIABLES
    end_pc,                     \* "idle", "mounted", or "called"
    end_enabled,                \* self.enabled
    end_data,                   \* the session_id of the last session:end event
    end_bd,                     \* what the last call learnt of bd
    end_failed,                 \* the issues whose bd update fails
    end_result,                 \* what the last on_session_end returned
    end_commands                \* the bd commands it ran, in order

\* One BeadsTool object and the machine it runs on.
VARIABLES
    tool_pc,                    \* "idle", "mounted", or "called"
    tool_session,               \* coordinator.config.get("session_id")
    tool_params,                \* the params of the last execute
    tool_env,                   \* the machine during it
    tool_result,                \* the ToolResult it returned
    tool_commands,              \* the bd commands it ran, in order
    tool_installs               \* whether it ran the install script

\* BeadsTool._run_bd taken alone: one bd process and what is made of it.
VARIABLES
    run_pc,                     \* "idle", "input" or "returned"
    run_proc,                   \* how the process ended and what it wrote
    run_out                     \* what _run_bd returned

\* One coordinator on which both mount functions of the package have run.
VARIABLES
    mounted_pc,                 \* "idle" or "mounted"
    mounted_injected,           \* _injected of each registered BeadsReadyHook
    mounted_calls,              \* history: calls each handler has had
    mounted_last,               \* the last call: which handler, its result
    mounted_injections          \* history: inject_context results so far

\* One session: the BeadsTool, the issues bd keeps, and the
\* BeadsSessionEndHook.
VARIABLES
    link_pc,                    \* "idle", "open" or "ended"
    link_session,               \* the session id the tool knows, or "none"
    link_status,                \* bd: the status of each issue
    link_notes,                 \* bd: the notes of each issue
    link_claimed,               \* history: "tagged" (a claim succeeded with
                                \* the session id known), "written" (bd took
                                \* the tag, the claim did not succeed),
                                \* "untagged" (claims succeeded only with
                                \* the session id unknown), or "no"
    link_end                    \* the session:end call: bd list, what it ran

reminderVars ==
    <<phase, enabled, recent_tool_threshold, reminder_interval, recent_tools,
      tool_calls_since_reminder, beads_used_this_session, op, bd,
      bd_invoked, result, observed, calls_observed, reminders>>

displayVars == <<display_pc, display_option, display_issues, display_out>>

sessionVars ==
    <<session_pc, session_config, session_fields, session_alone,
      session_last>>

readyVars ==
    <<ready_pc, ready_enabled, ready_max_issues, ready_injected,
      ready_result, ready_bd, ready_invoked, ready_requests,
      ready_injections, ready_queried>>

endVars ==
    <<end_pc, end_enabled, end_data, end_bd, end_failed, end_result,
      end_commands>>

toolVars ==
    <<tool_pc, tool_session, tool_params, tool_env, tool_result,
      tool_commands, tool_installs>>

runVars == <<run_pc, run_proc, run_out>>

mountedVars ==
    <<mounted_pc, mounted_injected, mounted_calls, mounted_last,
      mounted_injections>>

linkVars ==
    <<link_pc, link_session, link_status, link_notes, link_claimed, link_end>>

vars ==
    <<reminderVars, displayVars, sessionVars, readyVars, endVars, toolVars,
      runVars, mountedVars, linkVars>>

\* The variables of the components a specification leaves alone.
notReminder ==
    <<displayVars, sessionVars, readyVars, endVars, toolVars, runVars,
      mountedVars, linkVars>>
notDisplay ==
    <<reminderVars, sessionVars, readyVars, endVars, toolVars, runVars,
      mountedVars, linkVars>>
notSession ==
    <<reminderVars, displayVars, readyVars, endVars, toolVars, runVars,
      mountedVars, linkVars>>
notReady ==
    <<reminderVars, displayVars, sessionVars, endVars, toolVars, runVars,
      mountedVars, linkVars>>
notEnd ==
    <<reminderVars, displayVars, sessionVars, readyVars, toolVars, runVars,
      mountedVars, linkVars>>
notTool ==
    <<reminderVars, displayVars, sessionVars, readyVars, endVars, runVars,
      mountedVars, linkVars>>
notRun ==
    <<reminderVars, displayVars, sessionVars, readyVars, endVars, toolVars,
      mountedVars, linkVars>>
notMounted ==
    <<reminderVars, displayVars, sessionVars, readyVars, endVars, toolVars,
      runVars, linkVars>>
notLink ==
    <<reminderVars, displayVars, sessionVars, readyVars, endVars, toolVars,
      runVars, mountedVars>>

NothingBuilt == [raised |-> FALSE, listed |-> <<>>, more |-> 0]

\* self._recent_tools, self._tool_calls_since_reminder and
\* self._beads_used_this_session as __init__ leaves them.
FreshFields == [recent_tools |-> <<>>, calls |-> 0, used |-> FALSE]

NoEvent == [who |-> 0, op |-> "none", result |-> Continue, alone |-> Continue]

SessionIdle ==
    /\ session_pc = "idle"
    /\ session_config = [threshold |-> 0, interval |-> 0]
    /\ session_fields = <<>>
    /\ session_alone = <<>>
    /\ session_last = NoEvent

ReadyIdle ==
    /\ ready_pc = "idle"
    /\ ready_enabled = FALSE
    /\ ready_max_issues = 0
    /\ ready_injected = FALSE
    /\ ready_result = Continue
    /\ ready_bd = NotRun
    /\ ready_invoked = FALSE
    /\ ready_requests = 0
    /\ ready_injections = 0
    /\ ready_queried = FALSE

EndIdle ==
    /\ end_pc = "idle"
    /\ end_enabled = FALSE
    /\ end_data = "absent"
    /\ end_bd = NotRun
    /\ end_failed = {}
    /\ end_result = Continue
    /\ end_commands = <<>>

\* ToolResult(success=..., output=...): error is the "error" entry of the
\* output, "none" when it has none; "raise" is an exception leaving execute.
ToolResult(s, err) == [success |-> s, error |-> err, message |-> "none"]

\* The beads_not_installed result, its message being INSTALL_INSTRUCTIONS.
NotInstalled ==
    [success |-> FALSE, error |-> "beads_not_installed",
     message |-> "INSTALL_INSTRUCTIONS"]
ToolRaised == ToolResult(FALSE, "raise")

NoParams == [operation |-> "absent", arg |-> FALSE, action |-> "absent"]

NoProcess == [exit |-> "none", stdout |-> NoOutput]

NoMachine ==
    [available |-> FALSE, initialized |-> FALSE, proc |-> NoProcess,
     proc2 |-> NoProcess, install |-> "failed"]

ToolIdle ==
    /\ tool_pc = "idle"
    /\ tool_session = "none"
    /\ tool_params = NoParams
    /\ tool_env = NoMachine
    /\ tool_result = ToolResult(TRUE, "none")
    /\ tool_commands = <<>>
    /\ tool_installs = FALSE

NoText == <<>>

RunIdle ==
    /\ run_pc = "idle"
    /\ run_proc = [exit |-> "none", stdout |-> NoText, stderr |-> NoText]
    /\ run_out = [raised |-> FALSE, success |-> FALSE, kind |-> "text",
                  text |-> NoText]

NoCall == [who |-> "none", result |-> Continue]

MountedIdle ==
    /\ mounted_pc = "idle"
    /\ mounted_injected = <<>>
    /\ mounted_calls = <<>>
    /\ mounted_last = NoCall
    /\ mounted_injections = 0

NoEnd ==
    [enabled |-> FALSE, bd |-> NotRun, result |-> Continue, commands |-> <<>>]

LinkIdle ==
    /\ link_pc = "idle"
    /\ link_session = "none"
    /\ link_status = <<>>
    /\ link_notes = <<>>
    /\ link_claimed = <<>>
    /\ link_end = NoEnd

DisplayIdle ==
    /\ display_pc = "idle"
    /\ display_option = 0
    /\ display_issues = <<>>
    /\ display_out = NothingBuilt


ReminderIdle ==
    /\ phase = "new"
    /\ enabled = FALSE
    /\ recent_tool_threshold = 0
    /\ reminder_interval = 0
    /\ recent_tools = <<>>
    /\ tool_calls_since_reminder = 0
    /\ beads_used_this_session = FALSE
    /\ op = "none"
    /\ bd = NotRun
    /\ bd_invoked = FALSE
    /\ result = Continue
    /\ observed = <<>>
    /\ calls_observed = 0
    /\ reminders = 0

\* No BeadsWorkflowReminderHook object exists yet.
Init ==
    /\ ReminderIdle
    /\ LinkIdle
    /\ MountedIdle
    /\ RunIdle
    /\ DisplayIdle
    /\ SessionIdle
    /\ ReadyIdle
    /\ EndIdle
    /\ ToolIdle

\* BeadsWorkflowReminderHook.__init__: deque(maxlen=n) raises ValueError for
\* a negative n; every other value of the two thresholds is taken as given.
BeadsWorkflowReminderHook_init ==
    /\ phase = "new"
    /\ \E en \in BOOLEAN, t \in ThresholdValues, n \in IntervalValues :
        /\ enabled' = en
        /\ recent_tool_threshold' = t
        /\ reminder_interval' = n
        /\ phase' = IF t < 0 THEN "init_error" ELSE "ready"
    /\ op' = "__init__"
    /\ UNCHANGED <<recent_tools, tool_calls_since_reminder,
                   beads_used_this_session, bd, bd_invoked, result,
                   observed, calls_observed, reminders>>
    /\ UNCHANGED notReminder

\* BeadsWorkflowReminderHook.on_tool_post
BeadsWorkflowReminderHook_on_tool_post ==
    /\ phase = "ready"
    /\ Len(observed) < MaxCalls
    /\ \E d \in ToolPayloads :
        LET tool_name == data_get_tool(d) IN
        /\ observed' = Append(observed, tool_name)
        /\ IF truthy(tool_name)
           THEN /\ recent_tools' =
                       deque_append(recent_tools, recent_tool_threshold, tool_name)
                /\ tool_calls_since_reminder' = tool_calls_since_reminder + 1
                /\ beads_used_this_session' =
                       mark_used(beads_used_this_session, tool_name)
           ELSE UNCHANGED <<recent_tools, tool_calls_since_reminder,
                            beads_used_this_session>>
    /\ op' = "on_tool_post"
    /\ result' = Continue
    /\ bd' = NotRun
    /\ bd_invoked' = FALSE
    /\ calls_observed' = calls_observed + 1
    /\ UNCHANGED <<phase, enabled, recent_tool_threshold, reminder_interval,
                   reminders>>
    /\ UNCHANGED notReminder

\* What on_provider_request returns and leaves behind when it is called in
\* the current state and bd does proc.
RequestNow(proc) ==
    provider_request(enabled, tool_calls_since_reminder, reminder_interval,
                     recent_tools, proc)

\* BeadsWorkflowReminderHook.on_provider_request, bd doing proc.
on_provider_request(proc) ==
    /\ phase = "ready"
    /\ LET out == RequestNow(proc)
           fired == out.result.action = "inject_context"
       IN
        /\ bd' = IF out.consulted THEN proc ELSE NotRun
        /\ result' = out.result
        /\ bd_invoked' = out.invoked
        /\ tool_calls_since_reminder' = out.calls
        /\ reminders' = IF fired /\ reminders < 2 THEN reminders + 1
                        ELSE reminders
        /\ calls_observed' = IF fired THEN 0 ELSE calls_observed
    /\ op' = "on_provider_request"
    /\ UNCHANGED <<phase, enabled, recent_tool_threshold, reminder_interval,
                   recent_tools, beads_used_this_session, observed>>
    /\ UNCHANGED notReminder

BeadsWorkflowReminderHook_on_provider_request ==
    \E proc \in BdOutcomes : on_provider_request(proc)

Next ==
    \/ BeadsWorkflowReminderHook_init
    \/ BeadsWorkflowReminderHook_on_tool_post
    \/ BeadsWorkflowReminderHook_on_provider_request

Spec == Init /\ [][Next]_vars

\* ------------------------------------------------------------ two sessions
Sessions == 1..2

\* One class-level object serves every hook.
owner_shared(i) == 1

\* The object holding the attributes of hook i: __init__ assigns all three
\* to self, so each hook holds its own.
owner(i) == i

\* on_tool_post as a function of the hook's attributes.
tool_post(f, threshold, data) ==
    LET tool_name == data_get_tool(data) IN
    IF truthy(tool_name)
    THEN [recent_tools |-> deque_append(f.recent_tools, threshold, tool_name),
          calls |-> f.calls + 1,
          used |-> mark_used(f.used, tool_name)]
    ELSE f

\* What bd does in the two-session runs: absent, failing, no issue in
\* progress, one issue in progress.
SessionOutcomes ==
    {p \in BdOutcomes :
        \/ ~p.available
        \/ p.exit = "nonzero"
        \/ p.exit = "zero" /\ p.stdout.kind = "list" /\ Len(p.stdout.items) <= 1}

SessionPayloads == {d \in ToolPayloads : d.has_tool /\ d.tool # ""}

\* mount() has built an enabled hook for each session from one configuration.
InitSessions ==
    /\ ReminderIdle
    /\ LinkIdle
    /\ MountedIdle
    /\ RunIdle
    /\ ToolIdle
    /\ EndIdle
    /\ DisplayIdle
    /\ ReadyIdle
    /\ session_pc = "mounted"
    /\ session_config \in [threshold : 1..MaxThreshold, interval : 1..MaxInterval]
    /\ session_fields = [i \in Sessions |-> FreshFields]
    /\ session_alone = [i \in Sessions |-> FreshFields]
    /\ session_last = NoEvent

\* A tool:post event delivered to the hook of session i.
Session_on_tool_post(i) ==
    /\ session_pc = "mounted"
    /\ session_fields[owner(i)].calls < MaxCalls
    /\ session_alone[i].calls < MaxCalls
    /\ \E d \in SessionPayloads :
        /\ session_fields' =
               [session_fields EXCEPT ![owner(i)] =
                   tool_post(@, session_config.threshold, d)]
        /\ session_alone' =
               [session_alone EXCEPT ![i] =
                   tool_post(@, session_config.threshold, d)]
    /\ session_last' = [who |-> i, op |-> "on_tool_post",
                        result |-> Continue, alone |-> Continue]
    /\ UNCHANGED <<session_pc, session_config>>
    /\ UNCHANGED notSession

\* A provider:request event delivered to the hook of session i.
Session_on_provider_request(i) ==
    /\ session_pc = "mounted"
    /\ \E proc \in SessionOutcomes :
        LET f == session_fields[owner(i)]
            a == session_alone[i]
            out == provider_request(TRUE, f.calls, session_config.interval,
                                    f.recent_tools, proc)
            solo == provider_request(TRUE, a.calls, session_config.interval,
                                     a.recent_tools, proc)
        IN
        /\ session_fields' =
               [session_fields EXCEPT ![owner(i)].calls = out.calls]
        /\ session_alone' = [session_alone EXCEPT ![i].calls = solo.calls]
        /\ session_last' = [who |-> i, op |-> "on_provider_request",
                            result |-> out.result, alone |-> solo.result]
    /\ UNCHANGED <<session_pc, session_config>>
    /\ UNCHANGED notSession

NextSessions ==
    \E i \in Sessions :
        \/ Session_on_tool_post(i)
        \/ Session_on_provider_request(i)

SpecSessions == InitSessions /\ [][NextSessions]_vars

\* ---------------------------------------------------------- BeadsReadyHook
\* config.get("max_issues", 10): a cap below and a cap at the longest list.
ReadyCaps == {1, MaxIssues}

\* The mark is never set.
mark_injected_never(injected) == injected

\* self._injected = True
mark_injected(injected) == TRUE

\* _format_ready_work: issue.get on each of the first max_issues elements
\* (AttributeError on an element that is not an object), then the
\* "... and N more" line.
_format_ready_work(issues, max_issues) ==
    LET head == SubSeq(issues, 1, Min(Len(issues), max_issues)) IN
    IF \E i \in 1..Len(head) : ~head[i].is_object
    THEN [raised |-> TRUE, listed |-> <<>>, more |-> 0]
    ELSE [raised |-> FALSE,
          listed |-> [i \in 1..Len(head) |-> head[i].id],
          more |-> IF Len(issues) > max_issues
                   THEN Len(issues) - max_issues ELSE 0]

ReadyOut(r, inj, inv, con, q) ==
    [result |-> r, injected |-> inj, invoked |-> inv, consulted |-> con,
     queried |-> q]

\* BeadsReadyHook.on_provider_request as a function of the hook's fields
\* and of bd.  queried: the call got a list of issues out of bd's answer.
ready_request(en, injected, max_issues, proc) ==
    IF injected THEN ReadyOut(Continue, injected, FALSE, FALSE, FALSE)
    ELSE IF ~en THEN ReadyOut(Continue, injected, FALSE, FALSE, FALSE)
    ELSE IF ~_bd_available(proc)
    THEN ReadyOut(Continue, injected, FALSE, TRUE, FALSE)
    ELSE LET r == _run_bd(proc) IN
    IF ~r.success THEN ReadyOut(Continue, injected, TRUE, TRUE, FALSE)
    ELSE LET parsed == json_loads(r.output) IN
    IF ~parsed.ok
    THEN ReadyOut(Continue, mark_injected(injected), TRUE, TRUE, FALSE)
    ELSE LET got == issues_of(parsed.value) IN
    IF got.raised THEN ReadyOut(Raised, injected, TRUE, TRUE, FALSE)
    ELSE IF no_issues(got.issues)
    THEN ReadyOut(Continue, mark_injected(injected), TRUE, TRUE, TRUE)
    ELSE LET text == _format_ready_work(got.issues, max_issues) IN
    IF text.raised
    THEN ReadyOut(Raised, mark_injected(injected), TRUE, TRUE, TRUE)
    ELSE ReadyOut(HookResult("inject_context", text.listed, text.more),
                  mark_injected(injected), TRUE, TRUE, TRUE)

\* BeadsReadyHook.__init__ has run on some configuration.
InitReady ==
    /\ ReminderIdle
    /\ LinkIdle
    /\ MountedIdle
    /\ RunIdle
    /\ ToolIdle
    /\ EndIdle
    /\ DisplayIdle
    /\ SessionIdle
    /\ ready_pc = "mounted"
    /\ ready_enabled \in BOOLEAN
    /\ ready_max_issues \in ReadyCaps
    /\ ready_injected = FALSE
    /\ ready_result = Continue
    /\ ready_bd = NotRun
    /\ ready_invoked = FALSE
    /\ ready_requests = 0
    /\ ready_injections = 0
    /\ ready_queried = FALSE

\* BeadsReadyHook.on_provider_request
BeadsReadyHook_on_provider_request ==
    /\ ready_pc = "mounted"
    /\ ready_requests < MaxCalls
    /\ \E proc \in BdOutcomes :
        LET out == ready_request(ready_enabled, ready_injected,
                                 ready_max_issues, proc)
            fired == out.result.action = "inject_context"
        IN
        /\ ready_injected' = out.injected
        /\ ready_result' = out.result
        /\ ready_bd' = IF out.consulted THEN proc ELSE NotRun
        /\ ready_invoked' = out.invoked
        /\ ready_injections' = IF fired THEN ready_injections + 1
                               ELSE ready_injections
        /\ ready_queried' = (ready_queried \/ out.queried)
    /\ ready_requests' = ready_requests + 1
    /\ UNCHANGED <<ready_pc, ready_enabled, ready_max_issues>>
    /\ UNCHANGED notReady

NextReady == BeadsReadyHook_on_provider_request

SpecReady == InitReady /\ [][NextReady]_vars

\* ----------------------------------------------------- BeadsSessionEndHook
\* The longest list bd list prints in the session-end runs.
MaxListed == 3

\* data.get("session_id"): the id of this session, the empty string, or no
\* such key.
SessionIds == {"S", "", "absent"}

\* An in-progress issue as bd list prints it.  notes: "mine" holds
\* [amplifier:claimed-by-session:S], "other" is any text without it (the
\* tag of another session, no notes), "null" is a JSON null.
Claimed(i, n, h) ==
    [is_object |-> TRUE, id |-> i, has_id |-> h, notes |-> n]

NotAnIssue == [is_object |-> FALSE, id |-> 0, has_id |-> FALSE, notes |-> "other"]

ListedAt(i) ==
    {Claimed(i, "mine", TRUE), Claimed(i, "mine", FALSE),
     Claimed(i, "other", TRUE), Claimed(i, "null", TRUE), NotAnIssue}

EndLists ==
    UNION {{l \in [1..n -> UNION {ListedAt(i) : i \in 1..n}] :
                \A i \in 1..n : l[i] \in ListedAt(i)} : n \in 0..MaxListed}

EndDocuments ==
    {Doc("invalid", FALSE, <<>>), Doc("null", FALSE, <<>>),
     Doc("number", FALSE, <<>>), Doc("object", FALSE, <<>>)}
        \cup {Doc("list", FALSE, l) : l \in EndLists}
        \cup {Doc("object", TRUE, l) : l \in {x \in EndLists : Len(x) <= 1}}

EndOutcomes ==
    {[available |-> FALSE, exit |-> "none", stdout |-> NoOutput]}
        \cup [available : {TRUE}, exit : {"nonzero", "timeout", "oserror"},
              stdout : {NoOutput}]
        \cup [available : {TRUE}, exit : {"zero"}, stdout : EndDocuments]

\* session_tag in notes: TypeError when notes is None.
tag_in_notes(issue) ==
    [raised |-> issue.notes = "null", found |-> issue.notes = "mine"]

\* The for loop of on_session_end from element i on, cmds being the bd
\* commands run so far: issue.get raises AttributeError on an element that
\* is not an object; the result of the update is not looked at.
RECURSIVE mark_ended(_, _, _)
mark_ended(issues, i, cmds) ==
    IF i > Len(issues) THEN [raised |-> FALSE, commands |-> cmds]
    ELSE IF ~issues[i].is_object THEN [raised |-> TRUE, commands |-> cmds]
    ELSE LET t == tag_in_notes(issues[i]) IN
    IF t.raised THEN [raised |-> TRUE, commands |-> cmds]
    ELSE IF t.found /\ issues[i].has_id
    THEN mark_ended(issues, i + 1,
                    Append(cmds, [cmd |-> "update", id |-> issues[i].id]))
    ELSE mark_ended(issues, i + 1, cmds)

\* bd is on the PATH and no bd process was started.
OnPath == [available |-> TRUE, exit |-> "none", stdout |-> NoOutput]

\* seen: what the call learnt of bd.
EndOut(r, c, seen) == [result |-> r, commands |-> c, seen |-> seen]

ListCommand == [cmd |-> "list", id |-> 0]

\* BeadsSessionEndHook.on_session_end as a function of the hook's field, of
\* the event and of bd.
session_end(en, session_id, proc) ==
    IF ~en THEN EndOut(Continue, <<>>, NotRun)
    ELSE IF ~_bd_available(proc) THEN EndOut(Continue, <<>>, NotRun)
    ELSE IF session_id \in {"", "absent"} THEN EndOut(Continue, <<>>, OnPath)
    ELSE LET r == _run_bd(proc) IN
    IF ~r.success THEN EndOut(Continue, <<ListCommand>>, proc)
    ELSE LET parsed == json_loads(r.output) IN
    IF ~parsed.ok THEN EndOut(Continue, <<ListCommand>>, proc)
    ELSE LET got == issues_of(parsed.value) IN
    IF got.raised THEN EndOut(Raised, <<ListCommand>>, proc)
    ELSE LET loop == mark_ended(got.issues, 1, <<ListCommand>>) IN
    EndOut(IF loop.raised THEN Raised ELSE Continue, loop.commands, proc)

\* BeadsSessionEndHook.__init__ has run on some configuration.
InitEnd ==
    /\ ReminderIdle
    /\ LinkIdle
    /\ MountedIdle
    /\ RunIdle
    /\ ToolIdle
    /\ DisplayIdle
    /\ SessionIdle
    /\ ReadyIdle
    /\ end_pc = "mounted"
    /\ end_enabled \in BOOLEAN
    /\ end_data = "absent"
    /\ end_bd = NotRun
    /\ end_failed = {}
    /\ end_result = Continue
    /\ end_commands = <<>>

\* BeadsSessionEndHook.on_session_end, called once at the end of the
\* session; failed: the issues for which bd update exits non-zero.
BeadsSessionEndHook_on_session_end ==
    /\ end_pc = "mounted"
    /\ \E sid \in SessionIds, proc \in EndOutcomes,
          failed \in SUBSET (1..MaxListed) :
        LET out == session_end(end_enabled, sid, proc) IN
        /\ failed \subseteq
               {out.commands[k].id : k \in 1..Len(out.commands)} \ {0}
        /\ end_data' = sid
        /\ end_bd' = out.seen
        /\ end_failed' = failed
        /\ end_result' = out.result
        /\ end_commands' = out.commands
    /\ end_pc' = "called"
    /\ UNCHANGED end_enabled
    /\ UNCHANGED notEnd

NextEnd == BeadsSessionEndHook_on_session_end

SpecEnd == InitEnd /\ [][NextEnd]_vars

\* --------------------------------------------------------------- BeadsTool
\* The keys of the handlers dict of execute.
ToolOps ==
    {"ready", "show", "create", "update", "close", "claim", "discover",
     "list", "sessions"}

\* The operations that need an argument: issue_id, title, or title and
\* parent_id.
NeedsArg == ToolOps \ {"ready", "list"}

\* params: operation is the "operation" entry ("absent": no such key; "":
\* the empty string; "bogus": a name execute does not know), arg tells
\* whether the argument the operation needs is given, action is the
\* "action" entry read by setup.
ToolParams ==
    [operation : {"setup"}, arg : {FALSE},
     action : {"absent", "install", "init", "both"}]
        \cup [operation : ToolOps, arg : BOOLEAN, action : {"absent"}]
        \cup [operation : {"status", "bogus", "", "absent"}, arg : {FALSE},
              action : {"absent"}]

\* What a bd process prints when it exits 0: text that is not JSON, null, a
\* list, an object.
ToolDocuments ==
    {Doc("invalid", FALSE, <<>>), Doc("null", FALSE, <<>>),
     Doc("list", FALSE, <<>>), Doc("object", FALSE, <<>>)}

ToolProcs ==
    [exit : {"nonzero", "timeout", "oserror"}, stdout : {NoOutput}]
        \cup [exit : {"zero"}, stdout : ToolDocuments]

\* The machine: whether bd is on the PATH, whether the beads directory
\* exists, how the first and the second bd process of the call end, and how
\* the install script ends (bd on the PATH afterwards or not, or failure).
Machines ==
    [available : BOOLEAN, initialized : BOOLEAN, proc : ToolProcs,
     proc2 : ToolProcs, install : {"on_path", "not_on_path", "failed"}]

\* The note an operation adds to its bd command when the session id is
\* known.
session_note(operation, session) ==
    IF session = "none" THEN "none"
    ELSE CASE operation = "create" -> "session"
           [] operation = "close" -> "closed-in-session"
           [] operation = "claim" -> "claimed-by-session"
           [] operation = "discover" -> "discovered-in-session"
           [] OTHER -> "none"

\* The bd subcommand an operation runs.
subcommand(operation) ==
    CASE operation = "claim" -> "update"
      [] operation = "discover" -> "create"
      [] operation = "sessions" -> "show"
      [] OTHER -> operation

Command(c, t) == [cmd |-> c, tag |-> t]

ToolOut(r, c, i) == [result |-> r, commands |-> c, installs |-> i]

\* The handlers of the handlers dict: the argument test, one bd process, and
\* the reading of its output.  claim writes into the parsed document and
\* sessions calls .get on it: TypeError or AttributeError when it is not an
\* object.
handler(operation, params, session, env) ==
    IF operation \in NeedsArg /\ ~params.arg
    THEN ToolOut(ToolResult(FALSE, "missing_argument"), <<>>, FALSE)
    ELSE LET cmds == <<Command(subcommand(operation),
                               session_note(operation, session))>>
             r == _run_bd(env.proc)
         IN
    IF ~r.success THEN ToolOut(ToolResult(FALSE, "bd_error"), cmds, FALSE)
    ELSE IF ~json_loads(r.output).ok
    THEN ToolOut(IF operation = "sessions"
                 THEN ToolResult(FALSE, "parse_error")
                 ELSE ToolResult(TRUE, "none"), cmds, FALSE)
    ELSE IF operation \in {"claim", "sessions"} /\ r.output.kind # "object"
    THEN ToolOut(ToolRaised, cmds, FALSE)
    ELSE ToolOut(ToolResult(TRUE, "none"), cmds, FALSE)

\* Every machine is taken to have bd.
BeadsTool_bd_available_always(env) == TRUE

\* BeadsTool._bd_available: shutil.which("bd") is not None
BeadsTool_bd_available(env) == env.available

\* _op_setup
_op_setup(params, env) ==
    LET action == IF params.action # "absent" THEN params.action
                  ELSE IF BeadsTool_bd_available(env) THEN "init" ELSE "both"
        installs == action \in {"install", "both"}
                        /\ ~BeadsTool_bd_available(env)
        now == BeadsTool_bd_available(env)
                   \/ (installs /\ env.install = "on_path")
    IN
    IF installs /\ env.install = "failed"
    THEN ToolOut(ToolResult(FALSE, "none"), <<>>, TRUE)
    ELSE IF action \in {"init", "both"} /\ now /\ ~env.initialized
    THEN ToolOut(ToolResult(TRUE, "none"), <<Command("init", "none")>>,
                 installs)
    ELSE ToolOut(ToolResult(TRUE, "none"), <<>>, installs)

\* _op_status: bd version, then bd list --status all when beads is
\* initialized; .get on a parsed document that is neither a list nor an
\* object raises AttributeError.
_op_status(env) ==
    IF ~BeadsTool_bd_available(env) THEN ToolOut(ToolResult(TRUE, "none"), <<>>, FALSE)
    ELSE IF ~env.initialized
    THEN ToolOut(ToolResult(TRUE, "none"), <<Command("version", "none")>>,
                 FALSE)
    ELSE LET cmds == <<Command("version", "none"), Command("list", "none")>>
             r == _run_bd(env.proc2)
         IN
    IF r.success /\ json_loads(r.output).ok /\ issues_of(r.output).raised
    THEN ToolOut(ToolRaised, cmds, FALSE)
    ELSE ToolOut(ToolResult(TRUE, "none"), cmds, FALSE)

\* The first test of execute passes every operation, absent or empty.
no_operation_never(operation) == FALSE

\* operation = params.get("operation"); not operation
no_operation(operation) == operation \in {"", "absent"}

\* Any name finds a handler.
known_operation_any(operation) == TRUE

\* handlers.get(operation) is not None
known_operation(operation) == operation \in ToolOps

\* BeadsTool.execute as a function of the params, of the session id and of
\* the machine.
execute(params, session, env) ==
    LET operation == params.operation IN
    IF no_operation(operation)
    THEN ToolOut(ToolResult(FALSE, "missing_operation"), <<>>, FALSE)
    ELSE IF operation = "setup" THEN _op_setup(params, env)
    ELSE IF operation = "status" THEN _op_status(env)
    ELSE IF ~BeadsTool_bd_available(env)
    THEN ToolOut(NotInstalled, <<>>, FALSE)
    ELSE IF ~known_operation(operation)
    THEN ToolOut(ToolResult(FALSE, "unknown_operation"), <<>>, FALSE)
    ELSE handler(operation, params, session, env)

\* BeadsTool.__init__ has run; the coordinator knows the session id or not.
InitTool ==
    /\ ReminderIdle
    /\ LinkIdle
    /\ MountedIdle
    /\ RunIdle
    /\ DisplayIdle
    /\ SessionIdle
    /\ ReadyIdle
    /\ EndIdle
    /\ tool_pc = "mounted"
    /\ tool_session \in {"S", "none"}
    /\ tool_params = NoParams
    /\ tool_env = NoMachine
    /\ tool_result = ToolResult(TRUE, "none")
    /\ tool_commands = <<>>
    /\ tool_installs = FALSE

\* One call of BeadsTool.execute.
BeadsTool_execute ==
    /\ tool_pc = "mounted"
    /\ \E params \in ToolParams, env \in Machines :
        LET out == execute(params, tool_session, env) IN
        /\ tool_params' = params
        /\ tool_env' = env
        /\ tool_result' = out.result
        /\ tool_commands' = out.commands
        /\ tool_installs' = out.installs
    /\ tool_pc' = "called"
    /\ UNCHANGED tool_session
    /\ UNCHANGED notTool

NextTool == BeadsTool_execute

SpecTool == InitTool /\ [][NextTool]_vars

\* ------------------------------------------------- BeadsTool._run_bd alone
\* The longest text a process writes.
MaxText == 2

\* What a process writes to stdout or stderr: blanks (spaces, newlines) and
\* other characters.
Texts == UNION {[1..n -> {" ", "x"}] : n \in 0..MaxText}

\* Nothing is removed.
strip_nothing(t) == t

\* str.strip(): the blanks at both ends are removed.
RECURSIVE strip(_)
strip(t) ==
    IF t = <<>> THEN t
    ELSE IF Head(t) = " " THEN strip(Tail(t))
    ELSE IF t[Len(t)] = " " THEN strip(SubSeq(t, 1, Len(t) - 1))
    ELSE t

\* One bd process: its return code, a timeout, or an exception of
\* subprocess.run, with the two texts it wrote.
RunProcs ==
    [exit : {"zero", "nonzero"}, stdout : Texts, stderr : Texts]
        \cup [exit : {"timeout", "oserror"}, stdout : {NoText},
              stderr : {NoText}]

Returned(s, k, t) == [raised |-> FALSE, success |-> s, kind |-> k, text |-> t]

\* BeadsTool._run_bd: the except clauses catch TimeoutExpired and
\* Exception, so nothing leaves it.
BeadsTool_run_bd(p) ==
    CASE p.exit = "zero" -> Returned(TRUE, "text", strip(p.stdout))
      [] p.exit = "nonzero" ->
            Returned(FALSE, "text",
                     IF strip(p.stderr) # <<>> THEN strip(p.stderr)
                     ELSE strip(p.stdout))
      [] p.exit = "timeout" -> Returned(FALSE, "timed_out", NoText)
      [] OTHER -> Returned(FALSE, "failed_to_execute", NoText)

\* _run_bd is about to start a process.
InitRun ==
    /\ ReminderIdle
    /\ LinkIdle
    /\ MountedIdle
    /\ DisplayIdle
    /\ SessionIdle
    /\ ReadyIdle
    /\ EndIdle
    /\ ToolIdle
    /\ run_pc = "input"
    /\ run_proc \in RunProcs
    /\ run_out = Returned(FALSE, "text", NoText)

RunBd ==
    /\ run_pc = "input"
    /\ run_pc' = "returned"
    /\ run_out' = BeadsTool_run_bd(run_proc)
    /\ UNCHANGED run_proc
    /\ UNCHANGED notRun

NextRun == RunBd

SpecRun == InitRun /\ [][NextRun]_vars

\* ------------------------------------------------------ both mounts applied
\* The handlers registered on provider:request under the name beads-ready:
\* the mount of tool.py and the mount of __init__.py each build a
\* BeadsReadyHook of their own and register its on_provider_request.
ReadyHandlers == {"tool.mount", "hooks.mount"}

\* config.get("max_issues", 10)
DefaultMaxIssues == 10

\* Both mounts have run with the default configuration: each hook is
\* enabled and has its own _injected, False.
InitMounted ==
    /\ ReminderIdle
    /\ LinkIdle
    /\ DisplayIdle
    /\ SessionIdle
    /\ ReadyIdle
    /\ EndIdle
    /\ ToolIdle
    /\ RunIdle
    /\ mounted_pc = "mounted"
    /\ mounted_injected = [h \in ReadyHandlers |-> FALSE]
    /\ mounted_calls = [h \in ReadyHandlers |-> 0]
    /\ mounted_last = NoCall
    /\ mounted_injections = 0

\* The coordinator calls the handler h registered on provider:request.
Mounted_on_provider_request(h) ==
    /\ mounted_pc = "mounted"
    /\ mounted_calls[h] < MaxCalls
    /\ \E proc \in BdOutcomes :
        LET out == ready_request(TRUE, mounted_injected[h],
                                 DefaultMaxIssues, proc)
        IN
        /\ mounted_injected' = [mounted_injected EXCEPT ![h] = out.injected]
        /\ mounted_last' = [who |-> h, result |-> out.result]
        /\ mounted_injections' =
               IF out.result.action = "inject_context"
               THEN mounted_injections + 1 ELSE mounted_injections
    /\ mounted_calls' = [mounted_calls EXCEPT ![h] = @ + 1]
    /\ UNCHANGED mounted_pc
    /\ UNCHANGED notMounted

NextMounted == \E h \in ReadyHandlers : Mounted_on_provider_request(h)

SpecMounted == InitMounted /\ [][NextMounted]_vars

\* ------------------------------------------------- claim, then session:end
\* The issues bd keeps.
LinkIssues == 1..2

\* f"[amplifier:{kind}:{session}]"
Tag(kind, session) == [kind |-> kind, id |-> session]

\* Notes holding no tag of this package, and notes that are a JSON null.
OtherNotes == Tag("other", "none")
NullNotes == Tag("null", "none")

\* The notes bd keeps for an issue after bd update --notes: the text of the
\* command; the notes stay when the command has no --notes.
notes_after(notes, cmd, session) ==
    IF cmd.tag = "none" THEN notes ELSE Tag(cmd.tag, session)

\* session_tag in notes, for the notes bd keeps: "null" when they are a
\* JSON null, "mine" when they hold
\* f"[amplifier:claimed-by-session:{session_id}]".
notes_listed(notes, session_id) ==
    IF notes = NullNotes THEN "null"
    ELSE IF notes = Tag("claimed-by-session", session_id) THEN "mine"
    ELSE "other"

\* bd list --status in_progress --json: the issues in progress, in id
\* order, each with its id and its notes.
RECURSIVE in_progress(_, _, _, _)
in_progress(status, notes, session_id, i) ==
    IF i \notin DOMAIN status THEN <<>>
    ELSE IF status[i] = "in_progress"
    THEN <<Claimed(i, notes_listed(notes[i], session_id), TRUE)>>
             \o in_progress(status, notes, session_id, i + 1)
    ELSE in_progress(status, notes, session_id, i + 1)

\* A machine with bd installed and beads initialized, the bd process of the
\* call ending as p.
MachineWith(p) ==
    [available |-> TRUE, initialized |-> TRUE, proc |-> p, proc2 |-> p,
     install |-> "failed"]

\* The session starts: the tool knows the session id or not, bd holds
\* issues with the notes others gave them.
InitLink ==
    /\ ReminderIdle
    /\ DisplayIdle
    /\ SessionIdle
    /\ ReadyIdle
    /\ EndIdle
    /\ ToolIdle
    /\ RunIdle
    /\ MountedIdle
    /\ link_pc = "open"
    /\ link_session \in {"S", "none"}
    /\ link_status \in [LinkIssues -> {"open", "in_progress"}]
    /\ link_notes \in [LinkIssues -> {OtherNotes, NullNotes}]
    /\ link_claimed = [i \in LinkIssues |-> "no"]
    /\ link_end = NoEnd

\* execute({"operation": "claim", "issue_id": i}): when the bd update it
\* runs exits 0, bd has set the status and taken the notes.
Link_claim(i) ==
    /\ link_pc = "open"
    /\ \E p \in ToolProcs :
        LET out == execute([operation |-> "claim", arg |-> TRUE,
                            action |-> "absent"],
                           link_session, MachineWith(p))
            done == Len(out.commands) = 1 /\ p.exit = "zero"
            tagged == done /\ out.commands[1].tag # "none"
        IN
        /\ link_status' = IF done
                          THEN [link_status EXCEPT ![i] = "in_progress"]
                          ELSE link_status
        /\ link_notes' =
               IF done
               THEN [link_notes EXCEPT
                        ![i] = notes_after(@, out.commands[1], link_session)]
               ELSE link_notes
        /\ link_claimed' =
               IF tagged /\ out.result.success
               THEN [link_claimed EXCEPT ![i] = "tagged"]
               ELSE IF tagged /\ link_claimed[i] # "tagged"
               THEN [link_claimed EXCEPT ![i] = "written"]
               ELSE IF out.result.success /\ link_claimed[i] = "no"
               THEN [link_claimed EXCEPT ![i] = "untagged"]
               ELSE link_claimed
    /\ UNCHANGED <<link_pc, link_session, link_end>>
    /\ UNCHANGED notLink

\* BeadsTool.session_id: the coordinator's session_id is read again on each
\* use while it is None.
Link_session_known ==
    /\ link_pc = "open"
    /\ link_session = "none"
    /\ link_session' = "S"
    /\ UNCHANGED <<link_pc, link_status, link_notes, link_claimed, link_end>>
    /\ UNCHANGED notLink

\* Somebody else closes issue i or rewrites its notes.
Link_edited(i) ==
    /\ link_pc = "open"
    /\ \/ /\ link_status[i] = "in_progress"
          /\ link_status' = [link_status EXCEPT ![i] = "open"]
          /\ UNCHANGED link_notes
       \/ /\ link_notes[i] \notin {OtherNotes, NullNotes}
          /\ link_notes' = [link_notes EXCEPT ![i] = OtherNotes]
          /\ UNCHANGED link_status
    /\ UNCHANGED <<link_pc, link_session, link_claimed, link_end>>
    /\ UNCHANGED notLink

\* The session:end event of session S reaches the hook; bd list prints the
\* issues in progress, or fails.
Link_on_session_end ==
    /\ link_pc = "open"
    /\ \E en \in BOOLEAN, exit \in {"zero", "nonzero", "timeout"} :
        LET listed == in_progress(link_status, link_notes, "S", 1)
            proc == [available |-> TRUE, exit |-> exit,
                     stdout |-> IF exit = "zero"
                                THEN Doc("list", FALSE, listed)
                                ELSE NoOutput]
            out == session_end(en, "S", proc)
        IN link_end' = [enabled |-> en, bd |-> proc, result |-> out.result,
                        commands |-> out.commands]
    /\ link_pc' = "ended"
    /\ UNCHANGED <<link_session, link_status, link_notes, link_claimed>>
    /\ UNCHANGED notLink

NextLink ==
    \/ \E i \in LinkIssues : Link_claim(i)
    \/ Link_session_known
    \/ \E i \in LinkIssues : Link_edited(i)
    \/ Link_on_session_end

SpecLink == InitLink /\ [][NextLink]_vars

\* ------------------------------------------------- _build_reminder alone
\* The ids bd gives its issues.
IssueIds == 1..2

\* Lists of in-progress issues, up to MaxIssues long.
DisplayLists ==
    UNION {[1..n -> {Issue(i) : i \in IssueIds}] : n \in 0..MaxIssues}

\* The values a configuration may give maxDisplayedItems; 0: not given.
DisplayOptions == 0..MaxIssues

\* A hook built from a configuration with or without the option is about to
\* build a reminder for a list of issues.
InitDisplay ==
    /\ ReminderIdle
    /\ LinkIdle
    /\ MountedIdle
    /\ RunIdle
    /\ ToolIdle
    /\ EndIdle
    /\ SessionIdle
    /\ ReadyIdle
    /\ display_pc = "input"
    /\ display_option \in DisplayOptions
    /\ display_issues \in DisplayLists
    /\ display_out = NothingBuilt

\* BeadsWorkflowReminderHook._build_reminder: __init__ reads enabled,
\* priority, recent_tool_threshold and reminder_interval from the
\* configuration and nothing else, so the option does not reach it.
BuildReminder ==
    /\ display_pc = "input"
    /\ display_pc' = "built"
    /\ display_out' = _build_reminder(display_issues)
    /\ UNCHANGED <<display_option, display_issues>>
    /\ UNCHANGED notDisplay

NextDisplay == BuildReminder

SpecDisplay == InitDisplay /\ [][NextDisplay]_vars

\* ------------------------------------------------------------------ claims
Fired == result.action = "inject_context"
FiresNow == op' = "on_provider_request" /\ result'.action = "inject_context"

\* The configurations the spec admits: both thresholds positive.  The claims
\* the code fails are stated on these, so that no failure rests on a
\* threshold the constructor should have refused.
ValidThresholds == recent_tool_threshold >= 1 /\ reminder_interval >= 1
InService == phase = "ready" /\ enabled /\ ValidThresholds

\* The last n entries of a history.
LastCalls(h, n) == SubSeq(h, Len(h) - Min(Len(h), n) + 1, Len(h))
Contains(h, x) == \E i \in 1..Len(h) : h[i] = x

\* C1: throttle.  A reminder that follows an earlier reminder is returned
\* only after at least reminder_interval tool-completed events have been
\* observed since that earlier reminder.
Throttle ==
    [][(FiresNow /\ reminders > 0) => calls_observed >= reminder_interval]_vars

\* A second reminder has been returned by a hook whose interval is 1, two
\* tool calls into the session.
ThrottleWitness ==
    /\ op = "on_provider_request" /\ Fired
    /\ reminders = 2 /\ reminder_interval = 1
    /\ Len(observed) = 2

\* C2: no hook that can be constructed returns two reminders without a
\* tool-completed event observed between them.
NeverFiresTwiceInARow ==
    [][(FiresNow /\ reminders > 0) => calls_observed >= 1]_vars

\* C3: suppression by recent use.  When the tracked tool is among the last
\* recent_tool_threshold tool-completed events, on_provider_request returns
\* continue.
SuppressionByRecentUse ==
    (op = "on_provider_request"
        /\ Contains(LastCalls(observed, recent_tool_threshold), TrackedTool))
    => result.action = "continue"

\* The tracked tool is in the window of an enabled hook whose counter has
\* reached the interval, and the request was answered with continue.
SuppressionWitness ==
    /\ op = "on_provider_request" /\ enabled
    /\ Contains(LastCalls(observed, recent_tool_threshold), TrackedTool)
    /\ tool_calls_since_reminder >= reminder_interval
    /\ reminder_interval = 2
    /\ result.action = "continue"

\* The query succeeds with at least one in-progress issue: bd is installed,
\* exits with 0 and prints a non-empty list of issue objects, bare or under
\* the "issues" key of an object.
ReturnsIssues(proc) ==
    /\ proc.available /\ proc.exit = "zero"
    /\ proc.stdout.kind = "list"
        \/ (proc.stdout.kind = "object" /\ proc.stdout.has_issues)
    /\ Len(proc.stdout.items) >= 1
    /\ \A i \in 1..Len(proc.stdout.items) : proc.stdout.items[i].is_object

\* The query succeeds with no in-progress issue.
ReturnsEmptyList(proc) ==
    /\ proc.available /\ proc.exit = "zero"
    /\ proc.stdout.kind = "list"
        \/ (proc.stdout.kind = "object" /\ proc.stdout.has_issues)
    /\ Len(proc.stdout.items) = 0

\* The ids of the first DisplayCap issues of a list, in query order.
FirstIds(items) ==
    [i \in 1..Min(Len(items), DisplayCap) |-> items[i].id]

\* C4: a reminder fires when all gates pass.  A request to an enabled hook
\* whose counter has reached reminder_interval and whose window does not
\* hold the tracked tool, answered by a query that returns at least one
\* issue, returns inject_context listing the returned issues in query order
\* (the first DisplayCap of them, the others counted).
FiresWhenAllGatesPass ==
    (/\ phase = "ready"
     /\ enabled
     /\ tool_calls_since_reminder >= reminder_interval
     /\ ~Contains(recent_tools, TrackedTool))
    => \A proc \in {p \in BdOutcomes : ReturnsIssues(p)} :
        LET r == RequestNow(proc).result IN
        /\ r.action = "inject_context"
        /\ r.listed = FirstIds(proc.stdout.items)
        /\ Len(r.listed) + r.more = Len(proc.stdout.items)

\* Scenario A: interval 2, two calls of another tool, one issue in progress:
\* the reminder is returned with that issue listed.
FiresWitness ==
    /\ op = "on_provider_request" /\ Fired
    /\ reminder_interval = 2 /\ observed = <<"other", "other">>
    /\ bd.stdout.items = AllIssues(1) /\ result.listed = <<1>>

\* Each outcome of the query that is not a list of issues: bd absent, a
\* non-zero exit, a timeout, a launch error, output that is not JSON, JSON
\* null or a number, a list with an element that is not an object.
QueryFails(proc) ==
    \/ ~proc.available
    \/ proc.exit # "zero"
    \/ proc.stdout.kind \in {"invalid", "null", "number"}
    \/ \E i \in 1..Len(proc.stdout.items) : ~proc.stdout.items[i].is_object

\* C5: whatever the query does, no exception leaves a handler of a hook in
\* service, and a query that fails makes on_provider_request return
\* continue.
AbsorbsQueryFailures ==
    InService =>
        /\ result.action # "raise"
        /\ (op = "on_provider_request" /\ QueryFails(bd))
            => result.action = "continue"

\* C6: no active work, no reminder.  A request answered by a query that
\* returns an empty list returns continue, in every state of the hook.
NoActiveWorkNoReminder ==
    phase = "ready" =>
        \A proc \in {p \in BdOutcomes : ReturnsEmptyList(p)} :
            RequestNow(proc).result.action = "continue"

\* All in-memory gates passed, bd was run and printed an empty list, and the
\* request was answered with continue.
NoActiveWorkWitness ==
    /\ op = "on_provider_request" /\ enabled /\ bd_invoked
    /\ tool_calls_since_reminder >= reminder_interval
    /\ reminder_interval = 2
    /\ ReturnsEmptyList(bd)
    /\ result.action = "continue"

\* C7: the counter is reset to 0 exactly when a reminder fires: a request to
\* a hook in service that returns a reminder leaves it at 0, every other
\* request (continue, or ended by an exception) leaves it unchanged.
ResetExactlyOnReminder ==
    [][(InService /\ op' = "on_provider_request") =>
        IF result'.action = "inject_context"
        THEN tool_calls_since_reminder' = 0
        ELSE tool_calls_since_reminder' = tool_calls_since_reminder]_vars

\* C8 as stated: every tool-completed event delivered to a hook in service,
\* whatever its payload, adds exactly 1 to the counter.
EveryEventCounts ==
    [][(InService /\ op' = "on_tool_post") =>
        tool_calls_since_reminder' = tool_calls_since_reminder + 1]_vars

\* The name the last tool-completed event carried ("" for none).
LastObserved == observed[Len(observed)]

\* C8, amended: a tool-completed event with a non-empty tool name adds
\* exactly 1 to the counter; one with an empty or missing tool name leaves
\* the counter unchanged.
NamedEventCounts ==
    [][op' = "on_tool_post" =>
        tool_calls_since_reminder' =
            tool_calls_since_reminder + (IF LastObserved' # "" THEN 1 ELSE 0)]_vars

\* After a named call, an event without a tool name has been handled and the
\* counter still stands at 1.
NamedEventWitness ==
    /\ op = "on_tool_post" /\ Len(observed) = 2
    /\ observed[1] = "other" /\ observed[2] = ""
    /\ tool_calls_since_reminder = 1

\* C9 as stated: the window of a hook in service holds at most
\* recent_tool_threshold entries and equals the last
\* min(k, recent_tool_threshold) tool names of the k tool-completed events
\* observed, in call order.
WindowIsLastCalls ==
    InService =>
        /\ Len(recent_tools) <= recent_tool_threshold
        /\ recent_tools = LastCalls(observed, recent_tool_threshold)

\* The names of the events that carried one.
Named(h) == SelectSeq(h, LAMBDA x : x # "")

\* C9, amended: the window holds at most recent_tool_threshold entries and
\* equals the last min(k, recent_tool_threshold) non-empty tool names
\* observed, in call order, k being the number of events that carried a
\* non-empty name.
WindowIsLastNamedCalls ==
    phase = "ready" =>
        /\ Len(recent_tools) <= recent_tool_threshold
        /\ recent_tools = LastCalls(Named(observed), recent_tool_threshold)

\* A full window of two has taken a third name and dropped the oldest.
WindowWitness ==
    /\ op = "on_tool_post" /\ recent_tool_threshold = 2
    /\ observed = <<"beads", "other", "other">>
    /\ recent_tools = <<"other", "other">>

\* C10: with enabled = false both handlers are no-ops: on_tool_post leaves
\* the window, the counter and the ever-used flag unchanged, and
\* on_provider_request returns continue without running bd and without
\* changing them.
DisabledIsNoOp ==
    [][(phase = "ready" /\ ~enabled /\ ValidThresholds) =>
        /\ UNCHANGED <<recent_tools, tool_calls_since_reminder,
                       beads_used_this_session>>
        /\ result'.action = "continue"
        /\ ~bd_invoked']_vars

\* C11: a hook built with a non-positive reminder_interval or a non-positive
\* recent_tool_threshold fails at construction: no hook with such a value is
\* ever in service or handles an event.
InvalidThresholdsRefused ==
    (phase = "ready" \/ op \in {"on_tool_post", "on_provider_request"})
        => ValidThresholds

\* C12: gate ordering.  on_provider_request runs the bd process only when
\* called in a state where the hook is enabled, the counter has reached
\* reminder_interval and the tracked tool is not in the window.
QueryOnlyAfterGates ==
    [][(op' = "on_provider_request" /\ bd_invoked') =>
        /\ enabled
        /\ tool_calls_since_reminder >= reminder_interval
        /\ ~Contains(recent_tools, TrackedTool)]_vars

\* With interval 2 and the tracked tool pushed out of a window of one, the
\* gates passed and bd was run (it failed).
QueryOnlyAfterGatesWitness ==
    /\ op = "on_provider_request" /\ bd_invoked
    /\ reminder_interval = 2 /\ recent_tool_threshold = 1
    /\ observed = <<"beads", "other">>
    /\ bd.exit = "timeout"

\* C14: the ever-used flag is true exactly when the tracked tool has been
\* observed at some earlier point of the session; it starts false and is
\* never reset.
EverUsedIffObserved ==
    /\ phase = "new" => ~beads_used_this_session
    /\ phase = "ready" =>
        (beads_used_this_session <=> Contains(observed, TrackedTool))

\* The flag is still set after the tracked tool has left the window and a
\* reminder has fired.
EverUsedWitness ==
    /\ beads_used_this_session
    /\ ~Contains(recent_tools, TrackedTool)
    /\ recent_tool_threshold = 1
    /\ op = "on_provider_request" /\ Fired

\* The display limit the claim reads from the configuration.
ConfiguredCap == IF display_option = 0 THEN DisplayCap ELSE display_option

\* The reminder lists the first cap issues in query order and counts the
\* others in a summary line that is there only when some are left out.
ListsFirst(cap) ==
    LET n == Len(display_issues) IN
    /\ ~display_out.raised
    /\ Len(display_out.listed) = Min(n, cap)
    /\ \A i \in 1..Min(n, cap) : display_out.listed[i] = display_issues[i].id
    /\ display_out.more = (IF n > cap THEN n - cap ELSE 0)

OnlyFirstRequestInjects ==
    ready_requests > 1 => ready_result.action # "inject_context"

\* C18: on_session_end returns a continue result and does not raise,
\* whatever the event carries and whatever bd does.
SessionEndAlwaysContinues == end_pc = "called" => end_result = Continue

\* The issues bd list printed in the last call, << >> when bd was not asked
\* or gave no list of issues.
EndListed ==
    IF end_bd.exit = "zero" /\ end_data = "S"
          /\ end_bd.stdout.kind \in {"list", "object"}
    THEN issues_of(end_bd.stdout).issues ELSE <<>>

Updated(i) ==
    \E k \in 1..Len(end_commands) :
        end_commands[k] = [cmd |-> "update", id |-> EndListed[i].id]

\* C19: at session:end with session id S the hook runs a session-ended
\* update for a listed issue iff its notes hold the claim tag of S and it
\* has an id, whether or not the updates before it failed, and it runs no
\* bd command when the event carries no session id.
UpdatesExactlyOwnClaims ==
    end_pc = "called" =>
        /\ \A i \in 1..Len(EndListed) :
               Updated(i) <=>
                   /\ EndListed[i].is_object
                   /\ EndListed[i].notes = "mine"
                   /\ EndListed[i].has_id
        /\ end_data # "S" => end_commands = <<>>

\* C20: execute called without an operation, missing or empty, returns a
\* failed result whose error is missing_operation and runs no bd command,
\* whether or not bd is installed.
MissingOperation ==
    (tool_pc = "called" /\ tool_params.operation \in {"", "absent"}) =>
        /\ tool_result = ToolResult(FALSE, "missing_operation")
        /\ tool_commands = << >>
        /\ ~tool_installs

\* The empty operation on a machine where bd is installed, initialized and
\* answering.
MissingOperationWitness ==
    /\ tool_pc = "called" /\ tool_params.operation = ""
    /\ tool_env.available /\ tool_env.initialized
    /\ tool_env.proc.exit = "zero"
    /\ tool_result.error = "missing_operation" /\ tool_commands = << >>

\* C21 as stated: execute called with an operation name it does not support
\* returns a failed result whose error is unknown_operation and runs no bd
\* command.
UnknownOperation ==
    (tool_pc = "called" /\ tool_params.operation = "bogus") =>
        /\ tool_result = ToolResult(FALSE, "unknown_operation")
        /\ tool_commands = << >>
        /\ ~tool_installs

\* C21, amended: execute called with an operation name it does not support
\* runs no bd command and returns a failed result, whose error is
\* unknown_operation when bd is installed and beads_not_installed when it
\* is not.
UnknownOperationWithBd ==
    (tool_pc = "called" /\ tool_params.operation = "bogus") =>
        /\ tool_result = (IF tool_env.available
                          THEN ToolResult(FALSE, "unknown_operation")
                          ELSE NotInstalled)
        /\ tool_commands = << >>
        /\ ~tool_installs

\* An unsupported name on a machine with bd installed and answering.
UnknownOperationWitness ==
    /\ tool_pc = "called" /\ tool_params.operation = "bogus"
    /\ tool_env.available /\ tool_env.proc.exit = "zero"
    /\ tool_result.error = "unknown_operation" /\ tool_commands = << >>

\* C22: when bd is not installed, execute returns the failed
\* beads_not_installed result carrying the installation instructions and
\* starts no process, for every operation other than setup and status;
\* setup and status still reach their handlers: status reports with success
\* and setup goes on to the install script unless asked for init only.
NotInstalledResult ==
    (tool_pc = "called" /\ ~tool_env.available) =>
        /\ tool_params.operation \notin {"setup", "status", "", "absent"} =>
               /\ tool_result = NotInstalled
               /\ tool_commands = << >>
               /\ ~tool_installs
        /\ tool_params.operation = "status" =>
               /\ tool_result = ToolResult(TRUE, "none")
               /\ tool_commands = << >>
        /\ tool_params.operation = "setup" =>
               /\ tool_result.error = "none"
               /\ tool_installs <=> tool_params.action # "init"

\* claim, with its argument, on a machine without bd.
NotInstalledWitness ==
    /\ tool_pc = "called" /\ ~tool_env.available
    /\ tool_params.operation = "claim" /\ tool_params.arg
    /\ tool_result.message = "INSTALL_INSTRUCTIONS"
    /\ tool_commands = << >>

\* s holds blanks only.
Blank(s) == \A k \in 1..Len(s) : s[k] = " "

\* t is s without the blanks at its two ends.
StrippedFrom(t, s) ==
    /\ t = <<>> \/ (t[1] # " " /\ t[Len(t)] # " ")
    /\ \E a \in 0..Len(s) :
        /\ a + Len(t) <= Len(s)
        /\ Blank(SubSeq(s, 1, a))
        /\ SubSeq(s, a + 1, a + Len(t)) = t
        /\ Blank(SubSeq(s, a + Len(t) + 1, Len(s)))

\* What C23 says apart from the text of a non-zero exit.
RunBdReturns ==
    /\ ~run_out.raised
    /\ run_out.success <=> run_proc.exit = "zero"
    /\ run_proc.exit = "zero" =>
           run_out.kind = "text" /\ StrippedFrom(run_out.text, run_proc.stdout)
    /\ run_proc.exit = "nonzero" => run_out.kind = "text"
    /\ run_proc.exit \in {"timeout", "oserror"} =>
           run_out.kind \in {"timed_out", "failed_to_execute"}

\* C23 as stated: (True, stripped stdout) iff the process exits with code
\* 0; for a non-zero exit (False, stderr, or stdout when stderr is empty);
\* for a timeout or a launch error (False, message); it never raises.
RunBdAsStated ==
    run_pc = "returned" =>
        /\ RunBdReturns
        /\ run_proc.exit = "nonzero" =>
               run_out.text = (IF run_proc.stderr # <<>> THEN run_proc.stderr
                               ELSE run_proc.stdout)

\* C23, amended: for a non-zero exit the text returned is stderr stripped
\* of the blanks at its ends, or stdout stripped in the same way when
\* stderr holds nothing but blanks; the rest as stated.
RunBdStripped ==
    run_pc = "returned" =>
        /\ RunBdReturns
        /\ run_proc.exit = "nonzero" =>
               IF Blank(run_proc.stderr)
               THEN StrippedFrom(run_out.text, run_proc.stdout)
               ELSE StrippedFrom(run_out.text, run_proc.stderr)

\* A failing process that wrote only a blank to stderr and a message with a
\* trailing blank to stdout: the message comes back, stripped.
RunBdWitness ==
    /\ run_pc = "returned" /\ run_proc.exit = "nonzero"
    /\ run_proc.stderr = <<" ">> /\ run_proc.stdout = <<"x", " ">>
    /\ ~run_out.success /\ run_out.text = <<"x">>

\* C24: an on_provider_request call that returns continue leaves
\* recent_tools, the counter and the ever-used flag as they were, and no
\* on_provider_request call, reminder or not, changes recent_tools or the
\* ever-used flag.
RequestFrame ==
    [][op' = "on_provider_request" =>
        /\ recent_tools' = recent_tools
        /\ beads_used_this_session' = beads_used_this_session
        /\ result' = Continue =>
               tool_calls_since_reminder' = tool_calls_since_reminder]_vars

\* All gates passed with the counter at 2, bd reported no issue in progress:
\* the call returned continue and the window, the counter and the flag are
\* what the two tool events left.
RequestFrameWitness ==
    /\ op = "on_provider_request" /\ result = Continue /\ bd_invoked
    /\ bd.exit = "zero" /\ bd.stdout.kind = "list"
    /\ observed = <<"beads", "other">>
    /\ recent_tools = <<"other">>
    /\ tool_calls_since_reminder = 2
    /\ beads_used_this_session

\* C25: with both mount functions applied to one coordinator under the
\* default configuration, the handlers registered on provider:request under
\* the name beads-ready return inject_context at most once, all together,
\* over the session.
MountedInjectsOnce == mounted_injections <= 1

\* The session-ended updates the hook ran on issue i at session:end.
EndUpdates(i) ==
    {k \in 1..Len(link_end.commands) :
        link_end.commands[k] = [cmd |-> "update", id |-> i]}

\* C26: once the enabled hook has handled session:end for S with bd list
\* answering, an issue on which claim succeeded while the tool knew S, still
\* in progress with the notes of the claim, has got exactly one
\* session-ended update, and an issue claimed only while the session id was
\* unknown has got none.
ClaimLinkedToSessionEnd ==
    (link_pc = "ended" /\ link_end.enabled /\ link_end.bd.exit = "zero") =>
        \A i \in LinkIssues :
            /\ (/\ link_claimed[i] = "tagged"
                /\ link_status[i] = "in_progress"
                /\ link_notes[i] = Tag("claimed-by-session", "S"))
                   => Cardinality(EndUpdates(i)) = 1
            /\ link_claimed[i] = "untagged" => EndUpdates(i) = {}

====
